---- MODULE Spec2Model ----
(***************************************************************************)
(* Model of the Salam Center events scraper (scrape_salam_events.py).      *)
(*                                                                         *)
(* One run of main() is: construct the scraper (which loads the dedup keys *)
(* of the calendar file), scrape the feed, then either exit 1 or merge the *)
(* new events into the calendar file with generate_ics.                    *)
(*                                                                         *)
(* Time is counted in whole hours since 00:00 UTC of day 0.  The scraper's *)
(* timezone is a fixed offset of UtcOffset hours behind UTC.  A timestamp  *)
(* is rendered in compact form as day * 100 + hour.  A text line of the    *)
(* calendar file is a record [tag, txt, num]: tag is the line's prefix up  *)
(* to and including the colon, txt and num carry the rest of the line.     *)
(* The file is compared as Python reads it in text mode.                   *)
(***************************************************************************)
EXTENDS Integers, Sequences, FiniteSets, TLC

\* ---------------------------------------------------------------- bounds
MaxFeed == 2          \* longest feed the environment serves
MaxRuns == 2          \* number of runs of main() in one behaviour

\* ------------------------------------------------------- program constants
UtcOffset == 8        \* America/Los_Angeles, standard time, hours behind UTC
DefaultHours == 2     \* default event duration
StartHour == 9        \* local hour given to a bare start date
EndHour == 17         \* local hour given to a bare end date

\* ------------------------------------------------------------ feed fields
Absent == -2          \* the field is missing or the empty string
Garbled == -1         \* the field is present but does not parse

Titles == {"", "A", "B", "C,D"}
Locations == {"", "Hall"}

\* fields of the entries served to full runs: every combination for the
\* title "A", and one timed entry for the title "B"
RunPublished == {Absent, 25}
RunStartDates == {Absent, 1}
RunEndDates == {Absent, 0}

\* fields of the entries given to the extractor alone
AllPublished == {Absent, Garbled, 20, 25, 30}
AllStartDates == {Absent, Garbled, 0, 1}
AllEndDates == {Absent, Garbled, 0, 1}

FeedEntries ==
    [title : {"A"}, published : RunPublished, mec_startdate : RunStartDates,
     mec_enddate : RunEndDates, mec_location : {""}]
    \cup
    [title : {"B"}, published : {25}, mec_startdate : {Absent},
     mec_enddate : {Absent}, mec_location : {""}]

AllEntries ==
    [title : Titles, published : AllPublished, mec_startdate : AllStartDates,
     mec_enddate : AllEndDates, mec_location : Locations]

NoEntry ==
    [title |-> "", published |-> Absent, mec_startdate |-> Absent,
     mec_enddate |-> Absent, mec_location |-> ""]

Feeds == UNION {[1..n -> FeedEntries] : n \in 0..MaxFeed}

\* ------------------------------------------------------------- time, text
\* strftime('%Y%m%dT%H%M%SZ') of an instant, after astimezone(utc)
FormatUtc(t) == (t \div 24) * 100 + (t % 24)

\* strftime('%Y%m%d%H%M%S') of an instant in the scraper's timezone
FormatLocal(t) == ((t - UtcOffset) \div 24) * 100 + ((t - UtcOffset) % 24)

\* timezone.localize(date at the given local hour)
Localize(day, hour) == 24 * day + hour + UtcOffset

Line(tag, txt, num) == [tag |-> tag, txt |-> txt, num |-> num]

BeginEvent == Line("BEGIN:VEVENT", "", 0)
EndEvent == Line("END:VEVENT", "", 0)

\* the four header lines and the footer that generate_ics writes itself
CalendarHeader ==
    << Line("BEGIN:VCALENDAR", "", 0), Line("VERSION:", "2.0", 0),
       Line("PRODID:", "ics.py", 0), Line("COMMENT:", "Generated at", 0) >>

CalendarFooter == << Line("END:VCALENDAR", "", 0) >>

\* a calendar file written by hand, as the tests do: one event block whose
\* UID is not one the tool would generate
LegacyFile ==
    [exists |-> TRUE,
     lines |-> CalendarHeader \o
               << BeginEvent, Line("SUMMARY:", "B", 0),
                  Line("DTSTART:", "", FormatUtc(25)),
                  Line("DTEND:", "", FormatUtc(27)),
                  Line("UID:", "existing", 0), EndEvent >> \o
               CalendarFooter]

\* a calendar file from another tool: one all-day event block, which has a
\* summary but no line that starts with DTSTART:
ForeignFile ==
    [exists |-> TRUE,
     lines |-> << Line("BEGIN:VCALENDAR", "", 0), BeginEvent,
                  Line("SUMMARY:", "A", 0),
                  Line("DTSTART;VALUE=DATE:", "", FormatUtc(24)), EndEvent >>
               \o CalendarFooter]

NoFile == [exists |-> FALSE, lines |-> << >>]

VARIABLES
    file,             \* the calendar file on disk: [exists, lines]
    pc,               \* position of main(): "start", "loaded", "scraped", "done"
    existing_events,  \* scraper.existing_events: set of <<summary, dtstart>>
    fetch_ok,         \* whether the HTTP GET of this run succeeded
    fetches,          \* number of HTTP GETs issued in this run
    feed,             \* feed.entries as parsed in this run
    events,           \* the list returned by scrape_events
    exit_code,        \* -1 while running, then the exit status of the run
    wrote,            \* whether this run opened the file for writing
    prev_file,        \* the file as it was when generate_ics was called
    existing_count,   \* generate_ics: existing_count reported
    new_count,        \* generate_ics: new_count reported
    runs,             \* number of runs started so far
    item,             \* the entry handed to extract_event_details alone
    extracted,        \* its result: << >> for None, else << event >>
    read_error,       \* the read of the file at construction raised
    pending           \* the pieces of an open write not yet in the file

vars == << file, pc, existing_events, fetch_ok, fetches, feed, events,
           exit_code, wrote, prev_file, existing_count, new_count, runs,
           item, extracted, read_error, pending >>

\* the variables that only reads that raise and writes in pieces change
io_vars == << read_error, pending >>

\* ------------------------------------------------- _load_existing_events
RECURSIVE LoadLines(_, _, _, _, _, _)
LoadLines(lines, i, in_event, event_summary, event_dtstart, existing) ==
    IF i > Len(lines) THEN existing
    ELSE LET line == lines[i] IN
         IF line.tag = "BEGIN:VEVENT"
         THEN LoadLines(lines, i + 1, TRUE, "", -1, existing)
         ELSE IF line.tag = "END:VEVENT"
         THEN LoadLines(lines, i + 1, FALSE, event_summary, event_dtstart,
                        IF event_summary # "" /\ event_dtstart # -1
                        THEN existing \cup {<< event_summary, event_dtstart >>}
                        ELSE existing)
         ELSE IF in_event
         THEN IF line.tag = "SUMMARY:"
              THEN LoadLines(lines, i + 1, in_event, line.txt, event_dtstart,
                             existing)
              ELSE IF line.tag = "DTSTART:"
              THEN LoadLines(lines, i + 1, in_event, event_summary, line.num,
                             existing)
              ELSE LoadLines(lines, i + 1, in_event, event_summary,
                             event_dtstart, existing)
         ELSE LoadLines(lines, i + 1, in_event, event_summary, event_dtstart,
                        existing)

load_existing_events(f) ==
    IF f.exists THEN LoadLines(f.lines, 1, FALSE, "", -1, {}) ELSE {}

\* --------------------------------------------------------- _event_exists
\* a lookup that goes by the title alone
event_exists_any_start(existing, title, start) ==
    \E k \in existing : k[1] = title

event_exists(existing, title, start) ==
    << title, FormatUtc(start) >> \in existing

\* ------------------------------------------------------- parse_event_time
\* << >> is None
parse_event_time(pub_date_str) ==
    IF pub_date_str = Garbled THEN << >> ELSE << pub_date_str >>

\* -------------------------------------------------- extract_event_details
StartFromPublished(entry) ==
    IF entry.published # Absent THEN parse_event_time(entry.published)
    ELSE << >>

\* an end that takes an end-date that does not parse for a date
ResolveEndAnyDate(entry, start) ==
    IF entry.mec_enddate # Absent
    THEN Localize(entry.mec_enddate, EndHour)
    ELSE start + DefaultHours

\* an end that defaults to the start itself
ResolveEndNoDuration(entry, start) ==
    IF entry.mec_enddate # Absent /\ entry.mec_enddate # Garbled
    THEN Localize(entry.mec_enddate, EndHour)
    ELSE start

ResolveEnd(entry, start) ==
    IF entry.mec_enddate # Absent /\ entry.mec_enddate # Garbled
    THEN Localize(entry.mec_enddate, EndHour)
    ELSE start + DefaultHours

MakeEvent(entry, start) ==
    [title |-> entry.title, start |-> start, end |-> ResolveEnd(entry, start),
     location |-> entry.mec_location]

\* an extractor that tries the start-date field before the publish timestamp
extract_start_date_first(entry) ==
    IF entry.title = "" THEN << >>
    ELSE IF entry.mec_startdate # Absent /\ entry.mec_startdate # Garbled
    THEN << MakeEvent(entry, Localize(entry.mec_startdate, StartHour)) >>
    ELSE LET pub == StartFromPublished(entry) IN
         IF pub # << >> THEN << MakeEvent(entry, pub[1]) >> ELSE << >>

extract_event_details(entry) ==
    IF entry.title = "" THEN << >>
    ELSE LET pub == StartFromPublished(entry) IN
         IF pub # << >> THEN << MakeEvent(entry, pub[1]) >>
         ELSE IF entry.mec_startdate = Absent THEN << >>
         ELSE IF entry.mec_startdate = Garbled THEN << >>
         ELSE << MakeEvent(entry, Localize(entry.mec_startdate, StartHour)) >>

\* ---------------------------------------------------------- scrape_events
\* a scan that passes over a known event instead of stopping at it
RECURSIVE ScanEntriesPastKnown(_, _, _, _, _)
ScanEntriesPastKnown(entries, existing, idx, all_events, stop_scraping) ==
    IF idx > Len(entries) THEN all_events
    ELSE LET event_data == extract_event_details(entries[idx]) IN
         IF event_data = << >>
         THEN ScanEntriesPastKnown(entries, existing, idx + 1, all_events,
                                   stop_scraping)
         ELSE IF event_exists(existing, event_data[1].title,
                              event_data[1].start)
         THEN ScanEntriesPastKnown(entries, existing, idx + 1, all_events,
                                   stop_scraping)
         ELSE ScanEntriesPastKnown(entries, existing, idx + 1,
                                   Append(all_events, event_data[1]),
                                   stop_scraping)

RECURSIVE ScanEntries(_, _, _, _, _)
ScanEntries(entries, existing, idx, all_events, stop_scraping) ==
    IF idx > Len(entries) \/ stop_scraping THEN all_events
    ELSE LET event_data == extract_event_details(entries[idx]) IN
         IF event_data = << >>
         THEN ScanEntries(entries, existing, idx + 1, all_events, stop_scraping)
         ELSE IF event_exists(existing, event_data[1].title, event_data[1].start)
         THEN ScanEntries(entries, existing, idx + 1, all_events, TRUE)
         ELSE ScanEntries(entries, existing, idx + 1,
                          Append(all_events, event_data[1]), stop_scraping)

scrape_events(entries, existing) ==
    ScanEntries(entries, existing, 1, << >>, FALSE)

\* ----------------------------------------------------------- generate_ics
\* the scan of the file's lines that collects the text of the old blocks
RECURSIVE CollectBlocks(_, _, _, _, _, _)
CollectBlocks(lines, i, in_event, current_event_lines, text, count) ==
    IF i > Len(lines)
    THEN [text |-> text, count |-> count]
    ELSE LET line == lines[i] IN
         IF line.tag = "BEGIN:VEVENT"
         THEN CollectBlocks(lines, i + 1, TRUE, << line >>, text, count)
         ELSE IF line.tag = "END:VEVENT"
         THEN CollectBlocks(lines, i + 1, FALSE, << >>,
                            text \o Append(current_event_lines, line),
                            count + 1)
         ELSE IF in_event
         THEN CollectBlocks(lines, i + 1, in_event,
                            Append(current_event_lines, line), text, count)
         ELSE CollectBlocks(lines, i + 1, in_event, current_event_lines,
                            text, count)

\* a read that keeps none of the old blocks
ReadOldBlocksNone(f) == [text |-> << >>, count |-> 0]

ReadOldBlocks(f) ==
    IF f.exists THEN CollectBlocks(f.lines, 1, FALSE, << >>, << >>, 0)
    ELSE [text |-> << >>, count |-> 0]

\* the validation of one event: it is skipped when end is before begin
PassesValidation(event_data) == ~(event_data.end < event_data.start)

\* event.uid: the local start in compact form and a hash of the title
EventUid(event_data) == << FormatLocal(event_data.start), event_data.title >>

\* a loop that stops at the first event that fails validation
RECURSIVE AddEventsAbort(_, _, _, _)
AddEventsAbort(evs, i, calendar, count) ==
    IF i > Len(evs) THEN [calendar |-> calendar, count |-> count]
    ELSE IF ~PassesValidation(evs[i])
    THEN [calendar |-> calendar, count |-> count]
    ELSE IF \E k \in 1..Len(calendar) : EventUid(calendar[k]) = EventUid(evs[i])
    THEN AddEventsAbort(evs, i + 1, calendar, count + 1)
    ELSE AddEventsAbort(evs, i + 1, Append(calendar, evs[i]), count + 1)

\* the loop over the events: calendar.events is a set of Event objects, and
\* two Event objects are the same member when their uid is equal, so adding
\* an event whose uid is already in the set leaves the set as it was;
\* new_count counts every add
RECURSIVE AddEvents(_, _, _, _)
AddEvents(evs, i, calendar, count) ==
    IF i > Len(evs) THEN [calendar |-> calendar, count |-> count]
    ELSE IF ~PassesValidation(evs[i])
    THEN AddEvents(evs, i + 1, calendar, count)
    ELSE IF \E k \in 1..Len(calendar) : EventUid(calendar[k]) = EventUid(evs[i])
    THEN AddEvents(evs, i + 1, calendar, count + 1)
    ELSE AddEvents(evs, i + 1, Append(calendar, evs[i]), count + 1)

\* the text the serializer writes for an event's name: a TEXT value, in
\* which a comma is written with a backslash before it
escape_string(name) == IF name = "C,D" THEN "C\\,D" ELSE name

\* the lines the serializer emits for one event
EventBlock(event_data) ==
    << BeginEvent,
       Line("SUMMARY:", escape_string(event_data.title), 0),
       Line("DTSTART:", "", FormatUtc(event_data.start)),
       Line("DTEND:", "", FormatUtc(event_data.end)),
       Line("UID:", event_data.title, FormatLocal(event_data.start)) >> \o
    (IF event_data.location # ""
     THEN << Line("LOCATION:", event_data.location, 0) >> ELSE << >>) \o
    << EndEvent >>

RECURSIVE ConcatBlocks(_, _)
ConcatBlocks(evs, i) ==
    IF i > Len(evs) THEN << >>
    ELSE EventBlock(evs[i]) \o ConcatBlocks(evs, i + 1)

\* calendar.serialize().split('\n'): header, the events in the order the
\* set yields them, footer
Serialize(ordered) ==
    << Line("BEGIN:VCALENDAR", "", 0), Line("VERSION:", "2.0", 0),
       Line("PRODID:", "ics.py", 0) >> \o ConcatBlocks(ordered, 1) \o
    << Line("END:VCALENDAR", "", 0) >>

\* calendar_lines[3:-1] without the VERSION: and PRODID: lines
NewEventLines(calendar_lines) ==
    SelectSeq(SubSeq(calendar_lines, 4, Len(calendar_lines) - 1),
              LAMBDA line : line.tag # "VERSION:" /\ line.tag # "PRODID:")

\* the orders in which a set of events can be iterated
Orderings(calendar) ==
    { [i \in 1..Len(calendar) |-> calendar[p[i]]] :
        p \in { q \in [1..Len(calendar) -> 1..Len(calendar)] :
                  \A a, b \in 1..Len(calendar) : a # b => q[a] # q[b] } }

\* a write that puts the old blocks first
WrittenLinesOldFirst(ordered, existing_event_text) ==
    CalendarHeader \o existing_event_text \o
    NewEventLines(Serialize(ordered)) \o CalendarFooter

\* what is written to the file
WrittenLines(ordered, existing_event_text) ==
    CalendarHeader \o NewEventLines(Serialize(ordered)) \o
    existing_event_text \o CalendarFooter

\* ---------------------------------------------------------------- actions
Init ==
    /\ file \in {NoFile, LegacyFile, ForeignFile}
    /\ pc = "start"
    /\ existing_events = {}
    /\ fetch_ok = FALSE
    /\ fetches = 0
    /\ feed = << >>
    /\ events = << >>
    /\ exit_code = -1
    /\ wrote = FALSE
    /\ prev_file = NoFile
    /\ existing_count = 0
    /\ new_count = 0
    /\ runs = 1
    /\ item = NoEntry
    /\ extracted = << >>
    /\ read_error = FALSE
    /\ pending = << >>

\* SalamEventsScraper(): the constructor loads the dedup keys
Construct ==
    /\ pc = "start"
    /\ existing_events' = load_existing_events(file)
    /\ pc' = "loaded"
    /\ UNCHANGED << file, fetch_ok, fetches, feed, events, exit_code, wrote,
                    prev_file, existing_count, new_count, runs, item,
                    extracted, io_vars >>

\* scrape_events when the GET succeeds and the feed parses to some entries
\* (possibly none)
ScrapeFetched ==
    /\ pc = "loaded"
    /\ \E entries \in Feeds :
         /\ feed' = entries
         /\ events' = scrape_events(entries, existing_events)
    /\ fetch_ok' = TRUE
    /\ fetches' = fetches + 1
    /\ pc' = "scraped"
    /\ UNCHANGED << file, existing_events, exit_code, wrote, prev_file,
                    existing_count, new_count, runs, item, extracted,
                    io_vars >>

\* scrape_events when the GET or raise_for_status raises: the handler
\* returns all_events, still empty
ScrapeFetchFailed ==
    /\ pc = "loaded"
    /\ feed' = << >>
    /\ events' = << >>
    /\ fetch_ok' = FALSE
    /\ fetches' = fetches + 1
    /\ pc' = "scraped"
    /\ UNCHANGED << file, existing_events, exit_code, wrote, prev_file,
                    existing_count, new_count, runs, item, extracted,
                    io_vars >>

\* a test that is never true
NothingToWriteNever(evs, existing) == FALSE

\* a test that looks at the new events only
NothingToWriteNoNew(evs, existing) == evs = << >>

\* main: the test that ends the run with sys.exit(1)
NothingToWrite(evs, existing) == evs = << >> /\ existing = {}

ExitNoEvents ==
    /\ pc = "scraped"
    /\ NothingToWrite(events, existing_events)
    /\ exit_code' = 1
    /\ pc' = "done"
    /\ UNCHANGED << file, existing_events, fetch_ok, fetches, feed, events,
                    wrote, prev_file, existing_count, new_count, runs, item,
                    extracted, io_vars >>

\* main: generate_ics(events, "salam_events.ics"), then the normal return
GenerateIcs ==
    /\ pc = "scraped"
    /\ ~NothingToWrite(events, existing_events)
    /\ LET old == ReadOldBlocks(file)
           added == AddEvents(events, 1, << >>, 0)
       IN /\ \E ordered \in Orderings(added.calendar) :
                file' = [exists |-> TRUE,
                         lines |-> WrittenLines(ordered, old.text)]
          /\ existing_count' = old.count
          /\ new_count' = added.count
    /\ prev_file' = file
    /\ wrote' = TRUE
    /\ exit_code' = 0
    /\ pc' = "done"
    /\ UNCHANGED << existing_events, fetch_ok, fetches, feed, events, runs,
                    item, extracted, io_vars >>

\* the script is started again (a later scheduled run)
NextRun ==
    /\ pc = "done"
    /\ runs < MaxRuns
    /\ runs' = runs + 1
    /\ pc' = "start"
    /\ existing_events' = {}
    /\ fetch_ok' = FALSE
    /\ fetches' = 0
    /\ feed' = << >>
    /\ events' = << >>
    /\ exit_code' = -1
    /\ wrote' = FALSE
    /\ prev_file' = NoFile
    /\ existing_count' = 0
    /\ new_count' = 0
    /\ UNCHANGED << file, item, extracted, io_vars >>

Next ==
    \/ Construct
    \/ ScrapeFetched
    \/ ScrapeFetchFailed
    \/ ExitNoEvents
    \/ GenerateIcs
    \/ NextRun

Spec == Init /\ [][Next]_vars

\* ------------------------------------------- the extractor on its own
InitExtract ==
    /\ file = NoFile
    /\ pc = "extract"
    /\ existing_events = {}
    /\ fetch_ok = FALSE
    /\ fetches = 0
    /\ feed = << >>
    /\ events = << >>
    /\ exit_code = -1
    /\ wrote = FALSE
    /\ prev_file = NoFile
    /\ existing_count = 0
    /\ new_count = 0
    /\ runs = 1
    /\ item \in AllEntries
    /\ extracted = << >>
    /\ read_error = FALSE
    /\ pending = << >>

\* extract_event_details(item), and scrape_events on the feed that holds
\* just this entry when nothing is known yet
ExtractItem ==
    /\ pc = "extract"
    /\ extracted' = extract_event_details(item)
    /\ feed' = << item >>
    /\ events' = scrape_events(<< item >>, existing_events)
    /\ pc' = "extracted"
    /\ UNCHANGED << file, existing_events, fetch_ok, fetches, exit_code,
                    wrote, prev_file, existing_count, new_count, runs, item,
                    io_vars >>

NextExtract == ExtractItem

SpecExtract == InitExtract /\ [][NextExtract]_vars

\* ------------------------------------------------- reads that may raise
\* a handler for the missing file only: any other error leaves the call
load_existing_events_uncaught(f, readable) ==
    [raised |-> f.exists /\ ~readable,
     existing |-> IF readable THEN load_existing_events(f) ELSE {}]

\* _load_existing_events when open() or read() may raise: both handlers
\* return the empty dict that was made before the try
load_existing_events_try(f, readable) ==
    [raised |-> FALSE,
     existing |-> IF readable THEN load_existing_events(f) ELSE {}]

\* SalamEventsScraper() when the read of an existing file may raise
ConstructIO ==
    /\ pc = "start"
    /\ \E readable \in BOOLEAN :
         /\ ~readable => file.exists
         /\ LET r == load_existing_events_try(file, readable) IN
              /\ existing_events' = r.existing
              /\ pc' = IF r.raised THEN "raised" ELSE "loaded"
              /\ exit_code' = IF r.raised THEN 1 ELSE exit_code
         /\ read_error' = ~readable
    /\ UNCHANGED << file, fetch_ok, fetches, feed, events, wrote, prev_file,
                    existing_count, new_count, runs, item, extracted,
                    pending >>

\* generate_ics when its own read of the file raises: the handler prints a
\* message and the write goes on with no old blocks
GenerateIcsUnread ==
    /\ pc = "scraped"
    /\ ~NothingToWrite(events, existing_events)
    /\ file.exists
    /\ LET added == AddEvents(events, 1, << >>, 0)
       IN /\ \E ordered \in Orderings(added.calendar) :
                file' = [exists |-> TRUE,
                         lines |-> WrittenLines(ordered, << >>)]
          /\ new_count' = added.count
    /\ existing_count' = 0
    /\ prev_file' = file
    /\ wrote' = TRUE
    /\ exit_code' = 0
    /\ pc' = "done"
    /\ UNCHANGED << existing_events, fetch_ok, fetches, feed, events, runs,
                    item, extracted, io_vars >>

NextIO ==
    \/ ConstructIO
    \/ ScrapeFetched
    \/ ScrapeFetchFailed
    \/ ExitNoEvents
    \/ GenerateIcs
    \/ GenerateIcsUnread

SpecIO == Init /\ [][NextIO]_vars

\* ------------------------------------- the same feed, run after run
\* the entries of the runs, and with them one whose title has a comma
RerunEntries ==
    FeedEntries \cup
    [title : {"C,D"}, published : {25}, mec_startdate : {Absent},
     mec_enddate : {Absent}, mec_location : {""}]

RerunFeeds == UNION {[1..n -> RerunEntries] : n \in 0..MaxFeed}

\* scrape_events of the first run: the GET succeeds
ScrapeFirst ==
    /\ pc = "loaded"
    /\ runs = 1
    /\ \E entries \in RerunFeeds :
         /\ feed' = entries
         /\ events' = scrape_events(entries, existing_events)
    /\ fetch_ok' = TRUE
    /\ fetches' = fetches + 1
    /\ pc' = "scraped"
    /\ UNCHANGED << file, existing_events, exit_code, wrote, prev_file,
                    existing_count, new_count, runs, item, extracted,
                    io_vars >>

\* scrape_events of a later run: the site serves the feed it served before
ScrapeAgain ==
    /\ pc = "loaded"
    /\ runs > 1
    /\ events' = scrape_events(feed, existing_events)
    /\ fetch_ok' = TRUE
    /\ fetches' = fetches + 1
    /\ pc' = "scraped"
    /\ UNCHANGED << file, existing_events, feed, exit_code, wrote, prev_file,
                    existing_count, new_count, runs, item, extracted,
                    io_vars >>

\* the script is started again while the feed is as it was
Rerun ==
    /\ pc = "done"
    /\ runs < MaxRuns
    /\ runs' = runs + 1
    /\ pc' = "start"
    /\ existing_events' = {}
    /\ fetch_ok' = FALSE
    /\ fetches' = 0
    /\ events' = << >>
    /\ exit_code' = -1
    /\ wrote' = FALSE
    /\ prev_file' = NoFile
    /\ existing_count' = 0
    /\ new_count' = 0
    /\ UNCHANGED << file, feed, item, extracted, io_vars >>

NextRerun ==
    \/ Construct
    \/ ScrapeFirst
    \/ ScrapeAgain
    \/ ExitNoEvents
    \/ GenerateIcs
    \/ Rerun

SpecRerun == Init /\ [][NextRerun]_vars

\* ------------------------------------------------- the write, in pieces
\* an open that leaves the content in place until the write is over
OpenKeep(f) == f

\* open(filename, 'w'): the file is there and empty
OpenTruncate(f) == [exists |-> TRUE, lines |-> << >>]

\* the f.write calls in their order: header, new blocks, old blocks, footer
Pieces(ordered, existing_event_text) ==
    << CalendarHeader, NewEventLines(Serialize(ordered)),
       existing_event_text, CalendarFooter >>

\* generate_ics up to the open of the file for writing: the old blocks are
\* read, the calendar is built, the file is truncated
OpenForWrite ==
    /\ pc = "scraped"
    /\ ~NothingToWrite(events, existing_events)
    /\ LET old == ReadOldBlocks(file)
           added == AddEvents(events, 1, << >>, 0)
       IN /\ \E ordered \in Orderings(added.calendar) :
                pending' = Pieces(ordered, old.text)
          /\ existing_count' = old.count
          /\ new_count' = added.count
    /\ file' = OpenTruncate(file)
    /\ prev_file' = file
    /\ wrote' = TRUE
    /\ pc' = "writing"
    /\ UNCHANGED << existing_events, fetch_ok, fetches, feed, events,
                    exit_code, runs, item, extracted, read_error >>

\* one piece reaches the file; after the last one the file is closed and
\* main returns
WritePiece ==
    /\ pc = "writing"
    /\ pending # << >>
    /\ file' = [file EXCEPT !.lines = @ \o Head(pending)]
    /\ pending' = Tail(pending)
    /\ pc' = IF Len(pending) = 1 THEN "done" ELSE "writing"
    /\ exit_code' = IF Len(pending) = 1 THEN 0 ELSE exit_code
    /\ UNCHANGED << existing_events, fetch_ok, fetches, feed, events, wrote,
                    prev_file, existing_count, new_count, runs, item,
                    extracted, read_error >>

\* the process ends while the file is open: a kill, or an error raised by
\* serialize() or by a write
Kill ==
    /\ pc = "writing"
    /\ pc' = "killed"
    /\ exit_code' = 1
    /\ UNCHANGED << file, existing_events, fetch_ok, fetches, feed, events,
                    wrote, prev_file, existing_count, new_count, runs, item,
                    extracted, io_vars >>

NextWrite ==
    \/ Construct
    \/ ScrapeFetched
    \/ ScrapeFetchFailed
    \/ ExitNoEvents
    \/ OpenForWrite
    \/ WritePiece
    \/ Kill

SpecWrite == Init /\ [][NextWrite]_vars

\* ------------------------------------------------ reading a file's blocks
\* The event blocks of a text, stated on the text itself: a block runs from
\* a BEGIN:VEVENT line to the next END:VEVENT line with no other
\* BEGIN:VEVENT line in between.
BlockSpans(lines) ==
    LET begins == { i \in 1..Len(lines) : lines[i].tag = "BEGIN:VEVENT" }
        ends == { j \in 1..Len(lines) : lines[j].tag = "END:VEVENT" }
    IN { s \in begins \X ends :
           /\ s[1] < s[2]
           /\ \A k \in begins \cup ends : ~(s[1] < k /\ k < s[2]) }

BlocksOf(lines) ==
    LET spans == BlockSpans(lines) IN
    [ n \in 1..Cardinality(spans) |->
        LET s == CHOOSE t \in spans :
                     Cardinality({ u \in spans : u[1] < t[1] }) = n - 1
        IN SubSeq(lines, s[1], s[2]) ]

BeginCount(lines) ==
    Cardinality({ i \in 1..Len(lines) : lines[i].tag = "BEGIN:VEVENT" })

\* the file as the current run found it
FileBefore == IF wrote THEN prev_file ELSE file

SeqToSet(q) == { q[i] : i \in 1..Len(q) }

EventKey(e) == << e.title, FormatUtc(e.start) >>

\* --------------------------------------------------------------- claims

\* C1: scrape_events returns, in feed order, exactly the extracted events
\* that precede the first extracted event whose key is already known;
\* skipped entries are not returned and do not stop the scan, and nothing
\* at or after the first known event is returned.
ExtractedOf(entries) ==
    LET kept == SelectSeq(entries,
                          LAMBDA en : extract_event_details(en) # << >>)
    IN [ i \in 1..Len(kept) |-> extract_event_details(kept[i])[1] ]

FirstKnown(evs, existing) ==
    LET known == { i \in 1..Len(evs) : EventKey(evs[i]) \in existing }
    IN IF known = {} THEN Len(evs) + 1
       ELSE CHOOSE i \in known : \A j \in known : i <= j

C1_StopAtFirstKnown ==
    (pc = "scraped" /\ fetch_ok) =>
        LET ex == ExtractedOf(feed)
        IN events = SubSeq(ex, 1, FirstKnown(ex, existing_events) - 1)

\* a known event in first position hides the novel event behind it
C1_Witness ==
    /\ pc = "scraped" /\ fetch_ok
    /\ Len(feed) = 2
    /\ extract_event_details(feed[1]) # << >>
    /\ extract_event_details(feed[2]) # << >>
    /\ EventKey(extract_event_details(feed[1])[1]) \in existing_events
    /\ EventKey(extract_event_details(feed[2])[1]) \notin existing_events
    /\ events = << >>

ValidCount(evs) ==
    Cardinality({ i \in 1..Len(evs) : evs[i].end >= evs[i].start })

C3_BlockCount ==
    (pc = "done" /\ wrote) =>
        /\ BeginCount(file.lines) =
               BeginCount(prev_file.lines) + ValidCount(events)
        /\ BeginCount(file.lines) = existing_count + new_count

\* C4: an event with end < start is not written, and the valid events of
\* the same batch are written all the same (events with the same title and
\* start are one calendar entry, written as the first of them); no block
\* but an old one has an end before its start.
FirstOfIdentity(evs, i) ==
    CHOOSE j \in 1..i :
        /\ evs[j].end >= evs[j].start
        /\ evs[j].title = evs[i].title /\ evs[j].start = evs[i].start
        /\ \A m \in 1..(j - 1) :
               ~(/\ evs[m].end >= evs[m].start
                 /\ evs[m].title = evs[i].title
                 /\ evs[m].start = evs[i].start)

DtOf(block, tag) ==
    { block[i].num : i \in { n \in 1..Len(block) : block[n].tag = tag } }

C4_InvalidEventsDropped ==
    (pc = "done" /\ wrote) =>
        LET old == BlocksOf(prev_file.lines)
            new == BlocksOf(file.lines)
            fresh == SeqToSet(SubSeq(new, 1, Len(new) - Len(old)))
        IN /\ \A i \in 1..Len(events) :
                  IF events[i].end < events[i].start
                  THEN EventBlock(events[i]) \notin fresh
                  ELSE EventBlock(events[FirstOfIdentity(events, i)])
                           \in fresh
           /\ \A b \in fresh :
                  \A st \in DtOf(b, "DTSTART:") :
                      \A en \in DtOf(b, "DTEND:") : en >= st

\* a batch with an invalid event followed by a valid one has been merged
C4_Witness ==
    /\ pc = "done" /\ wrote
    /\ Len(events) = 2
    /\ events[1].end < events[1].start
    /\ events[2].end >= events[2].start
    /\ Len(BlocksOf(file.lines)) = Len(BlocksOf(prev_file.lines)) + 1

\* C5: a run with no scraped event and no calendar content beforehand (no
\* file, or a file without an event block) ends with a non-zero exit code
\* and leaves the file as it was, never written.
NoContent(f) == ~f.exists \/ BlocksOf(f.lines) = << >>

C5_NothingInNothingOut ==
    (pc = "done" /\ events = << >> /\ NoContent(FileBefore)) =>
        /\ exit_code # 0
        /\ ~wrote
        /\ file = FileBefore

C5_NoWriteStep ==
    [][(pc = "scraped" /\ events = << >> /\ NoContent(file)) =>
           (file' = file /\ wrote' = wrote)]_vars

\* the run failed and there is still no file
C5_Witness ==
    pc = "done" /\ events = << >> /\ ~file.exists /\ exit_code = 1

KeyedBlocks(f) ==
    IF ~f.exists THEN {}
    ELSE { b \in SeqToSet(BlocksOf(f.lines)) :
             /\ \E i \in 1..Len(b) : b[i].tag = "SUMMARY:" /\ b[i].txt # ""
             /\ \E i \in 1..Len(b) : b[i].tag = "DTSTART:" }

C7_FetchFailure ==
    ((pc \in {"scraped", "done"}) /\ ~fetch_ok) =>
        /\ events = << >>
        /\ fetches = 1
        /\ (pc = "done" /\ existing_events # {}) =>
               /\ wrote
               /\ exit_code = 0
               /\ file.exists
               /\ BlocksOf(file.lines) = BlocksOf(prev_file.lines)

\* a run whose fetch failed has rewritten a file that holds events
C7_Witness ==
    /\ pc = "done" /\ ~fetch_ok /\ existing_events # {}
    /\ wrote /\ Len(BlocksOf(file.lines)) >= 1

\* C8: whenever a run writes the calendar file, the written file holds at
\* least one event block.
C8_NeverEmptyCalendar ==
    (pc = "done" /\ wrote) => Len(BlocksOf(file.lines)) >= 1

EndDateParses(entry) ==
    entry.mec_enddate # Absent /\ entry.mec_enddate # Garbled

C9_WitnessEarlyEnd ==
    /\ pc = "extracted" /\ Len(events) = 1
    /\ EndDateParses(item)
    /\ events[1].end < events[1].start

\* C10: extract_event_details returns nothing exactly when the title is
\* empty, or when there is no publish timestamp that parses and the
\* start-date is missing or does not parse; a publish timestamp that parses
\* is the start whatever the start-date says, and otherwise the start is
\* the start-date at 09:00 local time, never a default.
PublishedParses(entry) ==
    entry.published # Absent /\ entry.published # Garbled

C10_AbsentExactlyWhen ==
    pc = "extracted" =>
        /\ (extracted = << >>) <=>
               \/ item.title = ""
               \/ /\ ~PublishedParses(item)
                  /\ item.mec_startdate \in {Absent, Garbled}
        /\ extracted # << >> =>
               /\ Len(extracted) = 1
               /\ extracted[1].title = item.title
               /\ extracted[1].start =
                      IF PublishedParses(item) THEN item.published
                      ELSE 24 * item.mec_startdate + StartHour + UtcOffset

\* an entry with a title, no publish timestamp and a start-date that does
\* not parse was skipped
C10_Witness ==
    /\ pc = "extracted"
    /\ item.title # "" /\ item.published = Absent
    /\ item.mec_startdate = Garbled
    /\ extracted = << >>

\* a publish timestamp that parses won over a start-date that also parses
C10_WitnessPrecedence ==
    /\ pc = "extracted"
    /\ PublishedParses(item)
    /\ item.mec_startdate \notin {Absent, Garbled}
    /\ extracted # << >>
    /\ extracted[1].start = item.published

\* C11: for every entry that is not skipped, the end is the end-date at
\* 17:00 local time when the end-date field is there and parses, and the
\* start plus two hours otherwise; an end-date that does not parse never
\* makes the entry absent.
StartResolves(entry) ==
    \/ PublishedParses(entry)
    \/ entry.mec_startdate \notin {Absent, Garbled}

C11_EndRule ==
    pc = "extracted" =>
        /\ extracted # << >> =>
               extracted[1].end =
                   IF item.mec_enddate \notin {Absent, Garbled}
                   THEN 24 * item.mec_enddate + EndHour + UtcOffset
                   ELSE extracted[1].start + 2
        /\ (item.mec_enddate = Garbled /\ item.title # ""
                /\ StartResolves(item)) => extracted # << >>

\* an entry whose end-date does not parse was extracted with the two-hour
\* default
C11_Witness ==
    /\ pc = "extracted"
    /\ item.mec_enddate = Garbled
    /\ extracted # << >>
    /\ extracted[1].end = extracted[1].start + 2

\* an entry whose end-date parses was extracted with that date at 17:00
C11_WitnessEndDate ==
    /\ pc = "extracted"
    /\ item.mec_enddate = 1
    /\ extracted # << >>
    /\ extracted[1].end = 24 + EndHour + UtcOffset

\* C12: _event_exists(title, start) is true exactly when the calendar file
\* read at construction holds a complete event block whose SUMMARY is the
\* title and whose DTSTART is the start written as a UTC timestamp; the
\* answer depends on the title and the start instant alone, so a record
\* that differs from a stored one in its end only is the same event.
QueryTitles == {"A", "B", "C,D"}

QueryStarts == {17, 25, 27, 41, 49}

\* the day and the hour of an instant, as the stamp shows them
UtcStamp(start) ==
    LET d == CHOOSE n \in 0..3 : 24 * n <= start /\ start < 24 * (n + 1)
    IN 100 * d + (start - 24 * d)

BlockMatches(b, title, start) ==
    /\ \E i \in 1..Len(b) : b[i].tag = "SUMMARY:" /\ b[i].txt = title
    /\ \E i \in 1..Len(b) : b[i].tag = "DTSTART:" /\ b[i].num = UtcStamp(start)

C12_ExistsIffBlock ==
    pc \in {"loaded", "scraped", "done"} =>
        LET blocks == IF FileBefore.exists
                      THEN SeqToSet(BlocksOf(FileBefore.lines)) ELSE {}
        IN \A title \in QueryTitles, start \in QueryStarts :
               event_exists(existing_events, title, start)
                   <=> \E b \in blocks : BlockMatches(b, title, start)

C12_Witness ==
    /\ pc = "scraped"
    /\ fetch_ok
    /\ ExtractedOf(feed) # << >>
    /\ events = << >>
    /\ LET e == ExtractedOf(feed)[1] IN
         /\ event_exists(existing_events, e.title, e.start)
         /\ \E b \in SeqToSet(BlocksOf(file.lines)) :
                /\ BlockMatches(b, e.title, e.start)
                /\ \E i \in 1..Len(b) :
                       b[i].tag = "DTEND:" /\ b[i].num # UtcStamp(e.end)

\* C13: loading the existing calendar never fails the run: when the file is
\* absent, or the read of it raises, _load_existing_events raises nothing
\* and gives the empty key set, and the run goes on as a run that knows no
\* event: every extracted event of the feed is returned, and the run ends
\* with the exit code that these events give.
C13_LoadNeverFails ==
    /\ pc # "raised"
    /\ (pc \in {"loaded", "scraped", "done"}
            /\ (read_error \/ ~FileBefore.exists)) =>
           /\ existing_events = {}
           /\ (pc \in {"scraped", "done"} /\ fetch_ok) =>
                  events = ExtractedOf(feed)
           /\ pc = "done" =>
                  exit_code = IF events = << >> THEN 1 ELSE 0

C13_Witness ==
    /\ pc = "done"
    /\ read_error
    /\ KeyedBlocks(FileBefore) # {}
    /\ existing_events = {}
    /\ events # << >>
    /\ exit_code = 0

C13_WitnessAbsent ==
    /\ pc = "done"
    /\ ~read_error
    /\ ~FileBefore.exists
    /\ events # << >>
    /\ exit_code = 0

\* C14: starting from an absent file or a file without duplicates, after
\* any sequence of runs the file never holds two event blocks with the same
\* title and the same start, also when one feed has two entries with the
\* same title and start.
SummaryOf(b) == { b[i].txt : i \in { k \in 1..Len(b) : b[k].tag = "SUMMARY:" } }

C14_NoDuplicateBlocks ==
    file.exists =>
        LET blocks == BlocksOf(file.lines) IN
        \A i, j \in 1..Len(blocks) :
            (/\ i # j
             /\ SummaryOf(blocks[i]) \cap SummaryOf(blocks[j]) # {})
                => DtOf(blocks[i], "DTSTART:") \cap DtOf(blocks[j], "DTSTART:")
                       = {}

\* C16: a full run made a second time against the same unchanged feed
\* leaves the sequence of event blocks of the calendar as the first run
\* left it.
C16_RerunIdempotent ==
    (pc = "done" /\ runs >= 2) =>
        BlocksOf(file.lines) = BlocksOf(FileBefore.lines)

\* C15: the write in generate_ics is not atomic: the file is truncated and
\* then written piece by piece (header, new blocks, old blocks, footer), so
\* a reader at that time, or a failure between the truncation and the last
\* write, finds a file without the END:VCALENDAR footer and, until the old
\* blocks are written, without the blocks the file had before.
HasFooter(lines) == \E i \in 1..Len(lines) : lines[i].tag = "END:VCALENDAR"

C15_WriteInPieces ==
    /\ pc \in {"writing", "killed"} =>
           /\ file.exists
           /\ ~HasFooter(file.lines)
           /\ Len(pending) >= 3 => BeginCount(file.lines) = 0
           /\ Len(pending) >= 2 =>
                  /\ BlocksOf(pending[Len(pending) - 1])
                         = BlocksOf(prev_file.lines)
                  /\ Len(BlocksOf(file.lines)) + Len(BlocksOf(prev_file.lines))
                         <= new_count + existing_count
                  /\ Len(BlocksOf(file.lines)) <= new_count
    /\ (pc = "done" /\ wrote) =>
           /\ HasFooter(file.lines)
           /\ pending = << >>

C15_Witness ==
    /\ pc = "killed"
    /\ KeyedBlocks(prev_file) # {}
    /\ file.exists
    /\ BlocksOf(file.lines) = << >>
    /\ ~HasFooter(file.lines)

C15_WitnessReader ==
    /\ pc = "writing"
    /\ Len(pending) = 1
    /\ KeyedBlocks(prev_file) # {}
    /\ Len(BlocksOf(file.lines)) > Len(BlocksOf(prev_file.lines))
    /\ ~HasFooter(file.lines)
====
